---- MODULE Spec2Model ----
\* A model of the neural-editor research pipeline: the training loop
\* (train.py), the test pass (train.py), the sequence encoder (Encoder.py),
\* the batch holder (Batch.py), the classifier loss (ClassifierLossCompute.py),
\* the PatchNet dataset builder and its pickled state (PatchNetDataset.py),
\* the accuracy@k experiment (AccuracyCalculation.py) and the entry point of
\* the offline analysis (analyze.py).
\*
\* Each component has its own variables, initial condition, actions and
\* specification; a component that a specification does not run stays idle.
EXTENDS Integers, Sequences, FiniteSets, Bags, TLC

VARIABLES
    \* train(): train.py 41-101
    t_pc, epoch, epochs_num, save_every, train_perplexity, val_perplexity,
    train_perplexities, val_perplexities, model_mode, saved_epochs, t_calls,
    \* test(): train.py 104-129, two calls side by side
    te_pc, te_print_every, te_test_data, te_pad_index, te_calls, te_result,
    \* Encoder.forward: Encoder.py 17-64
    e_pc, e_x, e_lengths, e_sort, num_layers, lengths_mask, e_packed,
    e_raw, e_cat, e_ret,
    \* Batch.__init__: Batch.py 9-45
    b_pc, b_args, use_cuda, batch,
    \* ClassifierLossCompute.__call__: ClassifierLossCompute.py 15-29
    l_pc, has_optimizer, params, grad, l_x, l_y, loss, l_ops, l_ret,
    l_calls, l_entry,
    \* PatchNetDataset.extract_data_samples: PatchNetDataset.py 72-91
    x_pc, description_lines, examples_text_data, x_idx, x_data_samples,
    x_counter, x_progress,
    \* PatchNetDataset.write_data and load: PatchNetDataset.py 155-176
    data_samples, tokens_counter, files, s_ops, s_written, s_replaced,
    \* AccuracyCalculation.conduct: AccuracyCalculation.py 31-41
    a_pc, topk_values, a_dataset, a_calculated, a_i, a_printed, a_ret,
    \* analyze.main: analyze.py 252-259
    m_pc, argv, m_printed, results_root_dir, is_test, config, m_evaluation

trainVars == <<t_pc, epoch, epochs_num, save_every, train_perplexity,
               val_perplexity, train_perplexities, val_perplexities,
               model_mode, saved_epochs, t_calls>>

testVars == <<te_pc, te_print_every, te_test_data, te_pad_index, te_calls,
              te_result>>

encVars == <<e_pc, e_x, e_lengths, e_sort, num_layers, lengths_mask,
             e_packed, e_raw, e_cat, e_ret>>

batchVars == <<b_pc, b_args, use_cuda, batch>>

lossVars == <<l_pc, has_optimizer, params, grad, l_x, l_y, loss, l_ops,
              l_ret, l_calls, l_entry>>

extractVars == <<x_pc, description_lines, examples_text_data, x_idx,
                 x_data_samples, x_counter, x_progress>>

storeVars == <<data_samples, tokens_counter, files, s_ops, s_written,
               s_replaced>>

accVars == <<a_pc, topk_values, a_dataset, a_calculated, a_i, a_printed,
             a_ret>>

mainVars == <<m_pc, argv, m_printed, results_root_dir, is_test, config,
              m_evaluation>>

vars == <<trainVars, testVars, encVars, batchVars, lossVars, extractVars,
          storeVars, accVars, mainVars>>

\* Python's None.
None == <<>>

\* Each component leaves the variables of the others alone.
TrainOnly ==
    UNCHANGED <<testVars, encVars, batchVars, lossVars, extractVars,
                storeVars, accVars, mainVars>>
TestOnly ==
    UNCHANGED <<trainVars, encVars, batchVars, lossVars, extractVars,
                storeVars, accVars, mainVars>>
EncOnly ==
    UNCHANGED <<trainVars, testVars, batchVars, lossVars, extractVars,
                storeVars, accVars, mainVars>>
BatchOnly ==
    UNCHANGED <<trainVars, testVars, encVars, lossVars, extractVars,
                storeVars, accVars, mainVars>>
LossOnly ==
    UNCHANGED <<trainVars, testVars, encVars, batchVars, extractVars,
                storeVars, accVars, mainVars>>
ExtractOnly ==
    UNCHANGED <<trainVars, testVars, encVars, batchVars, lossVars,
                storeVars, accVars, mainVars>>
StoreOnly ==
    UNCHANGED <<trainVars, testVars, encVars, batchVars, lossVars,
                extractVars, accVars, mainVars>>
AccOnly ==
    UNCHANGED <<trainVars, testVars, encVars, batchVars, lossVars,
                extractVars, storeVars, mainVars>>
MainOnly ==
    UNCHANGED <<trainVars, testVars, encVars, batchVars, lossVars,
                extractVars, storeVars, accVars>>

----------------------------------------------------------------------------
\* train(): the epoch loop of train.py.

\* Largest CONFIG['MAX_NUM_OF_EPOCHS'] explored.
MaxEpochs == 3
\* Largest CONFIG['SAVE_MODEL_EVERY'] explored.
MaxSaveEvery == 2
\* run_epoch returns one of 1..MaxPerplexity.
MaxPerplexity == 2

Perplexities == 1..MaxPerplexity

TrainIdle ==
    /\ t_pc = "idle" /\ epoch = 0 /\ epochs_num = 0 /\ save_every = 1
    /\ train_perplexity = None /\ val_perplexity = None
    /\ train_perplexities = <<>> /\ val_perplexities = <<>>
    /\ model_mode = "train" /\ saved_epochs = <<>> /\ t_calls = <<>>

\* State on entry to the for loop: both lists empty, the loop variable at
\* the first element of range(epochs_num).
TrainInit ==
    /\ t_pc = "for"
    /\ epoch = 0
    /\ epochs_num \in 0..MaxEpochs
    /\ save_every \in 1..MaxSaveEvery
    /\ train_perplexity = None /\ val_perplexity = None
    /\ train_perplexities = <<>> /\ val_perplexities = <<>>
    /\ model_mode = "train" /\ saved_epochs = <<>> /\ t_calls = <<>>

\* for epoch in range(epochs_num): the next iteration, or the exit.
TrainFor ==
    /\ t_pc = "for"
    /\ IF epoch < epochs_num
       THEN /\ t_pc' = "train_run"
            /\ model_mode' = "train"
       ELSE /\ t_pc' = "return"
            /\ UNCHANGED model_mode
    /\ UNCHANGED <<epoch, epochs_num, save_every, train_perplexity,
                   val_perplexity, train_perplexities, val_perplexities,
                   saved_epochs, t_calls>>
    /\ TrainOnly

\* train_perplexity = run_epoch(train batches, train_loss_function, ...)
TrainRunEpoch ==
    /\ t_pc = "train_run"
    /\ \E p \in Perplexities :
         /\ train_perplexity' = p
         /\ t_calls' = Append(t_calls, <<"run_epoch", "train", epoch, p>>)
    /\ t_pc' = "train_append"
    /\ UNCHANGED <<epoch, epochs_num, save_every, val_perplexity,
                   train_perplexities, val_perplexities, model_mode,
                   saved_epochs>>
    /\ TrainOnly

\* train_perplexities.append(train_perplexity)
TrainAppendWrongList ==
    /\ t_pc = "train_append"
    /\ val_perplexities' = Append(val_perplexities, train_perplexity)
    /\ t_pc' = "val_examples"
    /\ UNCHANGED <<epoch, epochs_num, save_every, train_perplexity,
                   val_perplexity, train_perplexities, model_mode,
                   saved_epochs, t_calls>>
    /\ TrainOnly

TrainAppend ==
    /\ t_pc = "train_append"
    /\ train_perplexities' = Append(train_perplexities, train_perplexity)
    /\ t_pc' = "val_examples"
    /\ UNCHANGED <<epoch, epochs_num, save_every, train_perplexity,
                   val_perplexity, val_perplexities, model_mode,
                   saved_epochs, t_calls>>
    /\ TrainOnly

\* model.eval(); print_examples(validation batches, ...)
ValPrintExamples ==
    /\ t_pc = "val_examples"
    /\ model_mode' = "eval"
    /\ t_calls' = Append(t_calls, <<"print_examples", "val", epoch, 3>>)
    /\ t_pc' = "val_run"
    /\ UNCHANGED <<epoch, epochs_num, save_every, train_perplexity,
                   val_perplexity, train_perplexities, val_perplexities,
                   saved_epochs>>
    /\ TrainOnly

\* val_perplexity = run_epoch(validation batches, val_loss_function, ...)
ValRunEpoch ==
    /\ t_pc = "val_run"
    /\ \E p \in Perplexities :
         /\ val_perplexity' = p
         /\ t_calls' = Append(t_calls, <<"run_epoch", "val", epoch, p>>)
    /\ t_pc' = "val_append"
    /\ UNCHANGED <<epoch, epochs_num, save_every, train_perplexity,
                   train_perplexities, val_perplexities, model_mode,
                   saved_epochs>>
    /\ TrainOnly

\* val_perplexities.append(val_perplexity)
ValAppend ==
    /\ t_pc = "val_append"
    /\ val_perplexities' = Append(val_perplexities, val_perplexity)
    /\ t_pc' = "save"
    /\ UNCHANGED <<epoch, epochs_num, save_every, train_perplexity,
                   val_perplexity, train_perplexities, model_mode,
                   saved_epochs, t_calls>>
    /\ TrainOnly

\* if epoch % SAVE_MODEL_EVERY == 0: torch.save(model, ...); then the loop
\* variable advances.
TrainSave ==
    /\ t_pc = "save"
    /\ saved_epochs' = IF epoch % save_every = 0
                       THEN Append(saved_epochs, epoch)
                       ELSE saved_epochs
    /\ epoch' = epoch + 1
    /\ t_pc' = "for"
    /\ UNCHANGED <<epochs_num, save_every, train_perplexity, val_perplexity,
                   train_perplexities, val_perplexities, model_mode, t_calls>>
    /\ TrainOnly

\* return train_perplexities, val_perplexities
TrainReturn ==
    /\ t_pc = "return"
    /\ t_pc' = "returned"
    /\ UNCHANGED <<epoch, epochs_num, save_every, train_perplexity,
                   val_perplexity, train_perplexities, val_perplexities,
                   model_mode, saved_epochs, t_calls>>
    /\ TrainOnly

TrainNext ==
    \/ TrainFor \/ TrainRunEpoch \/ TrainAppend \/ ValPrintExamples
    \/ ValRunEpoch \/ ValAppend \/ TrainSave \/ TrainReturn

\* The perplexities run_epoch returned for one kind of pass, in call order.
RunEpochResults(kind) ==
    LET picked == SelectSeq(t_calls,
                            LAMBDA c : c[1] = "run_epoch" /\ c[2] = kind)
    IN  [i \in 1..Len(picked) |-> picked[i][4]]

\* The epochs in which run_epoch ran for one kind of pass, in call order.
RunEpochEpochs(kind) ==
    LET picked == SelectSeq(t_calls,
                            LAMBDA c : c[1] = "run_epoch" /\ c[2] = kind)
    IN  [i \in 1..Len(picked) |-> picked[i][3]]

\* C1: train() returns one train and one validation perplexity per epoch:
\* on return both lists have exactly MAX_NUM_OF_EPOCHS entries, entry i is
\* the perplexity run_epoch computed in epoch i, and inside an epoch the
\* training perplexity is appended before the validation pass starts.
C1_PerplexitiesPerEpoch ==
    /\ t_pc = "returned" =>
         /\ Len(train_perplexities) = epochs_num
         /\ Len(val_perplexities) = epochs_num
         /\ train_perplexities = RunEpochResults("train")
         /\ val_perplexities = RunEpochResults("val")
         /\ RunEpochEpochs("train") = [i \in 1..epochs_num |-> i - 1]
         /\ RunEpochEpochs("val") = [i \in 1..epochs_num |-> i - 1]
    /\ t_pc \in {"val_examples", "val_run"} =>
         /\ Len(train_perplexities) = epoch + 1
         /\ train_perplexities[epoch + 1] = train_perplexity
         /\ Len(val_perplexities) = epoch
         /\ Len(RunEpochResults("val")) = epoch

\* A run of the largest number of epochs has returned, with different
\* perplexities in different epochs.
C1_Witness ==
    /\ t_pc = "returned"
    /\ epochs_num = MaxEpochs
    /\ train_perplexities[1] # train_perplexities[2]
    /\ val_perplexities[1] # train_perplexities[1]

----------------------------------------------------------------------------
\* test(): two calls on the same model, test data and field, each with its
\* own print_every. Every call test() makes is recorded with its arguments.

\* Largest number of examples in the test data.
MaxTestExamples == 2

Runs == {1, 2}
PrintEveryValues == {-1, 1}
PadIndices == {0, 1}

TestIdle ==
    /\ te_pc = [r \in Runs |-> "idle"]
    /\ te_print_every = [r \in Runs |-> -1]
    /\ te_test_data = 0 /\ te_pad_index = 0
    /\ te_calls = [r \in Runs |-> <<>>]
    /\ te_result = [r \in Runs |-> None]

TestInit ==
    /\ te_pc = [r \in Runs |-> "criterion"]
    /\ te_print_every \in [Runs -> PrintEveryValues]
    /\ te_test_data \in 0..MaxTestExamples
    /\ te_pad_index \in PadIndices
    /\ te_calls = [r \in Runs |-> <<>>]
    /\ te_result = [r \in Runs |-> None]

\* The perplexity of the model on the test data: the model is in eval mode
\* and is not updated, so it depends on the data alone.
TestPerplexity(test_data) == test_data + 1

TestCall(r, from, to, call) ==
    /\ te_pc[r] = from
    /\ te_pc' = [te_pc EXCEPT ![r] = to]
    /\ te_calls' = [te_calls EXCEPT ![r] = Append(@, call)]
    /\ UNCHANGED <<te_print_every, te_test_data, te_pad_index, te_result>>
    /\ TestOnly

\* pad_index = ...stoi[PAD_TOKEN]; criterion = nn.NLLLoss(sum, pad_index)
TestCriterion(r) ==
    TestCall(r, "criterion", "iterator", <<"NLLLoss", "sum", te_pad_index>>)

\* test_iter = data.Iterator(test_data, batch_size=1, ...); len(test_iter)
TestIterator(r) ==
    TestCall(r, "iterator", "loss", <<"Iterator", te_test_data, 1>>)

\* test_loss_function = SimpleLossCompute(model.generator, criterion, None)
TestLossFunction(r) ==
    TestCall(r, "loss", "eval", <<"SimpleLossCompute", te_pad_index, None>>)

\* model.eval()
TestEval(r) ==
    TestCall(r, "eval", "examples", <<"eval">>)

\* print_examples(batches, model, TOKENS_CODE_CHUNK_MAX_LEN + 10, vocab, n=3)
TestPrintExamples(r) ==
    TestCall(r, "examples", "run_epoch",
             <<"print_examples", te_test_data, te_pad_index, 3>>)

\* test_perplexity = run_epoch(batches, model, test_loss_function,
\*                             test_batches_num, print_every=print_every)
TestRunEpoch(r) ==
    TestCall(r, "run_epoch", "return",
             <<"run_epoch", te_test_data, te_pad_index, te_test_data,
               te_print_every[r]>>)

\* print(f'Test perplexity: ...'); return test_perplexity
TestReturn(r) ==
    /\ te_pc[r] = "return"
    /\ te_pc' = [te_pc EXCEPT ![r] = "returned"]
    /\ te_calls' = [te_calls EXCEPT
                      ![r] = Append(@, <<"print", TestPerplexity(te_test_data)>>)]
    /\ te_result' = [te_result EXCEPT ![r] = TestPerplexity(te_test_data)]
    /\ UNCHANGED <<te_print_every, te_test_data, te_pad_index>>
    /\ TestOnly

TestNext ==
    \E r \in Runs :
        \/ TestCriterion(r) \/ TestIterator(r) \/ TestLossFunction(r)
        \/ TestEval(r) \/ TestPrintExamples(r) \/ TestRunEpoch(r)
        \/ TestReturn(r)

\* C2: print_every is not used by test(): two calls that differ only in
\* print_every make the same calls with the same arguments.
C2_PrintEveryNotUsed ==
    (te_pc[1] = "returned" /\ te_pc[2] = "returned")
        => te_calls[1] = te_calls[2]

----------------------------------------------------------------------------
\* Encoder.forward: a bidirectional LSTM over a padded batch. Row i of x is
\* identified by its content; the LSTM encodes every row of the batch on its own.

\* Largest batch size B.
MaxBatch == 3
\* Largest sequence length.
MaxSeqLen == 2
\* The contents a row of x may have.
RowContents == {1, 2}
\* Largest num_layers of the LSTM.
MaxLayers == 2

\* self.rnn = nn.LSTM(..., bidirectional=True): two directions.
NumDirections == 2

EncIdle ==
    /\ e_pc = "idle" /\ e_x = <<>> /\ e_lengths = <<>> /\ e_sort = FALSE
    /\ num_layers = 1 /\ lengths_mask = None /\ e_packed = None
    /\ e_raw = None /\ e_cat = None /\ e_ret = None

EncInit ==
    /\ e_pc = "forward"
    /\ \E B \in 1..MaxBatch :
         /\ e_x \in [1..B -> RowContents]
         /\ e_lengths \in [1..B -> 1..MaxSeqLen]
    /\ e_sort \in BOOLEAN
    /\ num_layers \in 1..MaxLayers
    /\ lengths_mask = None /\ e_packed = None
    /\ e_raw = None /\ e_cat = None /\ e_ret = None

\* Python's s[start:stop:step] on a sequence whose first element has index 0.
PySlice(s, start, stop, step) ==
    LET n == IF stop > start THEN (stop - start + step - 1) \div step ELSE 0
    IN  [k \in 1..n |-> s[start + (k - 1) * step + 1]]

\* The permutations of 1..n, as sequences.
IndexPermutations(n) ==
    {p \in [1..n -> 1..n] : \A i, j \in 1..n : i # j => p[i] # p[j]}

IsDescending(v) == \A i \in 1..(Len(v) - 1) : v[i] >= v[i + 1]

\* x[index, ...]: the rows of x picked by an index tensor.
IndexSelect(x, index) == [i \in 1..Len(index) |-> x[index[i]]]

\* torch.sort(lengths, descending=True): the index tensors it may return.
\* The sort is not stable, so equal lengths may come in any order.
SortIndices(lengths) ==
    {p \in IndexPermutations(Len(lengths)) : IsDescending(IndexSelect(lengths, p))}

\* torch.argsort(v): the indices that sort v ascending (v has no ties here).
ArgsortSame(v) == v

Argsort(v) ==
    [i \in 1..Len(v) |->
        CHOOSE q \in 1..Len(v) :
            Cardinality({j \in 1..Len(v) :
                            v[j] < v[q] \/ (v[j] = v[q] /\ j < q)}) = i - 1]

\* pad_packed_sequence(rnn output): row of a sequence of the given length,
\* padded with zeros to the longest length of the batch.
RnnOutputRow(row, len, maxLen) ==
    [t \in 1..maxLen |-> IF t <= len THEN <<row, len, t>> ELSE <<0, 0, 0>>]

\* The final state of the LSTM for one row: kind 1 is h, kind 2 is c; index
\* k of [NumLayers * NumDirections] is layer k \div 2, direction k % 2.
RnnState(kind, k, row, len) == << <<kind, k, row, len>> >>

\* self.rnn(packed) followed by pad_packed_sequence, on the packed rows.
Rnn(x, lengths, layers) ==
    [output |-> [b \in 1..Len(x) |-> RnnOutputRow(x[b], lengths[b], lengths[1])],
     h_n |-> [k \in 1..(layers * NumDirections) |->
                [b \in 1..Len(x) |-> RnnState(1, k - 1, x[b], lengths[b])]],
     c_n |-> [k \in 1..(layers * NumDirections) |->
                [b \in 1..Len(x) |-> RnnState(2, k - 1, x[b], lengths[b])]]]

\* h_n[0:h_n.size(0):2] and h_n[1:h_n.size(0):2]
FwdFinal(s) == PySlice(s, 0, Len(s), 2)

BwdFinalFromZero(s) == PySlice(s, 0, Len(s), 2)

BwdFinal(s) == PySlice(s, 1, Len(s), 2)

\* torch.cat([fwd, bwd], dim=2) of two [NumLayers, B, H] tensors.
CatDim2(fwd, bwd) ==
    [l \in 1..Len(fwd) |-> [b \in 1..Len(fwd[l]) |-> fwd[l][b] \o bwd[l][b]]]

\* if sort: lengths, lengths_mask = torch.sort(lengths, descending=True);
\*          x = x[lengths_mask, :, :]; pack_padded_sequence(x, lengths)
EncSort ==
    /\ e_pc = "forward" /\ e_sort
    /\ \E p \in SortIndices(e_lengths) :
         /\ lengths_mask' = p
         /\ e_packed' = [x |-> IndexSelect(e_x, p),
                         lengths |-> IndexSelect(e_lengths, p)]
    /\ e_pc' = "rnn"
    /\ UNCHANGED <<e_x, e_lengths, e_sort, num_layers, e_raw, e_cat, e_ret>>
    /\ EncOnly

\* else: pack_padded_sequence(x, lengths), which rejects lengths that are
\* not sorted in decreasing order.
EncPack ==
    /\ e_pc = "forward" /\ ~e_sort
    /\ IF IsDescending(e_lengths)
       THEN /\ e_packed' = [x |-> e_x, lengths |-> e_lengths]
            /\ e_pc' = "rnn"
       ELSE /\ e_packed' = None
            /\ e_pc' = "raised"
    /\ UNCHANGED <<e_x, e_lengths, e_sort, num_layers, lengths_mask, e_raw,
                   e_cat, e_ret>>
    /\ EncOnly

\* output, (h_n, c_n) = self.rnn(packed); output = pad_packed_sequence(output)
EncRnn ==
    /\ e_pc = "rnn"
    /\ e_raw' = Rnn(e_packed.x, e_packed.lengths, num_layers)
    /\ e_pc' = "cat"
    /\ UNCHANGED <<e_x, e_lengths, e_sort, num_layers, lengths_mask,
                   e_packed, e_cat, e_ret>>
    /\ EncOnly

\* The final states of both directions are concatenated, for h and for c.
EncCat ==
    /\ e_pc = "cat"
    /\ e_cat' = [output |-> e_raw.output,
                 h_n |-> CatDim2(FwdFinal(e_raw.h_n), BwdFinal(e_raw.h_n)),
                 c_n |-> CatDim2(FwdFinal(e_raw.c_n), BwdFinal(e_raw.c_n))]
    /\ e_pc' = "return"
    /\ UNCHANGED <<e_x, e_lengths, e_sort, num_layers, lengths_mask,
                   e_packed, e_raw, e_ret>>
    /\ EncOnly

\* sort branch: lengths_mask_reverse = torch.argsort(lengths_mask);
\* return output[reverse, :], (h_n[:, reverse, :], c_n[:, reverse, :])
EncReturnSorted ==
    /\ e_pc = "return" /\ e_sort
    /\ LET lengths_mask_reverse == Argsort(lengths_mask)
       IN  e_ret' =
             [output |-> IndexSelect(e_cat.output, lengths_mask_reverse),
              h_n |-> [l \in 1..Len(e_cat.h_n) |->
                         IndexSelect(e_cat.h_n[l], lengths_mask_reverse)],
              c_n |-> [l \in 1..Len(e_cat.c_n) |->
                         IndexSelect(e_cat.c_n[l], lengths_mask_reverse)]]
    /\ e_pc' = "returned"
    /\ UNCHANGED <<e_x, e_lengths, e_sort, num_layers, lengths_mask,
                   e_packed, e_raw, e_cat>>
    /\ EncOnly

\* else branch: return output, (h_n, c_n)
EncReturn ==
    /\ e_pc = "return" /\ ~e_sort
    /\ e_ret' = e_cat
    /\ e_pc' = "returned"
    /\ UNCHANGED <<e_x, e_lengths, e_sort, num_layers, lengths_mask,
                   e_packed, e_raw, e_cat>>
    /\ EncOnly

EncNext ==
    \/ EncSort \/ EncPack \/ EncRnn \/ EncCat \/ EncReturnSorted \/ EncReturn

\* The longest length of the batch: the padded width of the output.
MaxLength(lengths) ==
    CHOOSE m \in {lengths[i] : i \in 1..Len(lengths)} :
        \A i \in 1..Len(lengths) : lengths[i] <= m

\* The encoding of one input row: its output row and, per layer, the final
\* forward state followed by the final backward state.
EncodedState(kind, l, row, len) ==
    RnnState(kind, 2 * l, row, len) \o RnnState(kind, 2 * l + 1, row, len)

\* C3: with sort=True the results come back in the caller's batch order:
\* the rows are packed in descending order of length, and row i of the
\* returned output and column i of the returned h_n and c_n are the
\* encodings of input row i, whatever the order of the lengths and however
\* ties are broken.
C3_SortedForwardKeepsOrder ==
    /\ (e_sort /\ e_pc \in {"rnn", "cat", "return", "returned"}) =>
         /\ IsDescending(e_packed.lengths)
         /\ Len(lengths_mask) = Len(e_x)
         /\ {lengths_mask[q] : q \in 1..Len(e_x)} = 1..Len(e_x)
         /\ e_packed.x = IndexSelect(e_x, lengths_mask)
    /\ (e_sort /\ e_pc = "returned") =>
         /\ Len(e_ret.output) = Len(e_x)
         /\ \A i \in 1..Len(e_x) :
              /\ e_ret.output[i] =
                   RnnOutputRow(e_x[i], e_lengths[i], MaxLength(e_lengths))
              /\ \A l \in 1..num_layers :
                   /\ e_ret.h_n[l][i] =
                        EncodedState(1, l - 1, e_x[i], e_lengths[i])
                   /\ e_ret.c_n[l][i] =
                        EncodedState(2, l - 1, e_x[i], e_lengths[i])

\* A sorted forward has returned on a batch whose sort permutation is not
\* its own inverse and whose lengths tie.
C3_Witness ==
    /\ e_sort /\ e_pc = "returned"
    /\ Len(e_x) = 3
    /\ Argsort(lengths_mask) # lengths_mask
    /\ e_lengths[2] = e_lengths[3]
    /\ e_x[1] # e_x[2]

\* The position a returned column had in the packed batch.
PackedPosition(i) ==
    IF e_sort THEN CHOOSE q \in 1..Len(e_x) : lengths_mask[q] = i ELSE i

\* C4: in both branches the returned h_n and c_n have exactly NumLayers
\* entries, and entry l is the forward state at raw index 2l followed by
\* the backward state at raw index 2l+1 of the LSTM's state, for every
\* layer l: every raw state is used exactly once.
C4_DirectionsConcatenated ==
    e_pc = "returned" =>
        /\ Len(e_raw.h_n) = num_layers * NumDirections
        /\ Len(e_ret.h_n) = num_layers
        /\ Len(e_ret.c_n) = num_layers
        /\ \A l \in 0..(num_layers - 1) : \A i \in 1..Len(e_x) :
             /\ e_ret.h_n[l + 1][i] =
                  e_raw.h_n[2 * l + 1][PackedPosition(i)]
                    \o e_raw.h_n[2 * l + 2][PackedPosition(i)]
             /\ e_ret.c_n[l + 1][i] =
                  e_raw.c_n[2 * l + 1][PackedPosition(i)]
                    \o e_raw.c_n[2 * l + 2][PackedPosition(i)]

\* Both branches have returned the states of an LSTM of several layers.
C4_Witness ==
    /\ e_pc = "returned" /\ ~e_sort
    /\ num_layers = MaxLayers
    /\ Len(e_x) >= 2

----------------------------------------------------------------------------
\* Batch.__init__: a batch of a torchtext iterator with its masks. A tensor
\* [B, T] is a sequence of B rows of T token ids; every field of the input
\* is a pair (tensor, lengths).

\* The token ids of the tensors; pad_index is one of them.
TokenIds == {0, 1}
\* The shapes [B, T] of src and of the three diff tensors.
Shapes == {<<1, 1>>, <<1, 2>>, <<2, 1>>}
\* The widths of trg.
TrgWidths == {2}

Tensors(B, T) == [1..B -> [1..T -> TokenIds]]

\* The lengths torchtext reports for a padded tensor: the tokens of a row
\* up to its first pad token.
RowLengths(tensor, pad_index) ==
    [i \in 1..Len(tensor) |->
        Cardinality({j \in 1..Len(tensor[i]) :
                        \A k \in 1..j : tensor[i][k] # pad_index})]

Field(tensor, pad_index) == <<tensor, RowLengths(tensor, pad_index)>>

BatchFields == {"src", "diff_alignment", "diff_prev", "diff_updated"}

EmptyBatch ==
    [src |-> None, src_lengths |-> None, src_mask |-> None, nseqs |-> None,
     diff_alignment |-> None, diff_alignment_lengths |-> None,
     diff_alignment_mask |-> None,
     diff_prev |-> None, diff_prev_lengths |-> None, diff_prev_mask |-> None,
     diff_updated |-> None, diff_updated_lengths |-> None,
     diff_updated_mask |-> None,
     trg |-> None, trg_y |-> None, trg_mask |-> None, trg_lengths |-> None,
     ntokens |-> None, cuda |-> {}]

BatchIdle ==
    /\ b_pc = "idle" /\ b_args = None /\ use_cuda = FALSE
    /\ batch = EmptyBatch

\* The arguments of one construction: the four tensors share the batch
\* size, trg is None at inference.
BatchInit ==
    /\ b_pc = "init"
    /\ use_cuda \in BOOLEAN
    /\ \E pad_index \in TokenIds, B \in {sh[1] : sh \in Shapes} :
         \E src \in UNION {Tensors(B, sh[2]) : sh \in {g \in Shapes : g[1] = B}},
            diff_alignment \in
                UNION {Tensors(B, sh[2]) : sh \in {g \in Shapes : g[1] = B}},
            diff_prev \in
                UNION {Tensors(B, sh[2]) : sh \in {g \in Shapes : g[1] = B}},
            diff_updated \in
                UNION {Tensors(B, sh[2]) : sh \in {g \in Shapes : g[1] = B}},
            trg \in {None} \cup UNION {Tensors(B, T) : T \in TrgWidths} :
              b_args = [src |-> Field(src, pad_index),
                        trg |-> IF trg = None THEN None
                                ELSE Field(trg, pad_index),
                        diff_alignment |-> Field(diff_alignment, pad_index),
                        diff_prev |-> Field(diff_prev, pad_index),
                        diff_updated |-> Field(diff_updated, pad_index),
                        pad_index |-> pad_index]
    /\ batch = EmptyBatch

\* tensor != pad_index, elementwise.
NotEqualZero(tensor, pad_index) ==
    [i \in 1..Len(tensor) |-> [j \in 1..Len(tensor[i]) |-> tensor[i][j] # 0]]

NotEqual(tensor, pad_index) ==
    [i \in 1..Len(tensor) |->
        [j \in 1..Len(tensor[i]) |-> tensor[i][j] # pad_index]]

\* mask.unsqueeze(-2): [B, T] becomes [B, 1, T].
Unsqueeze2(mask) == [i \in 1..Len(mask) |-> <<mask[i]>>]

\* tensor[:, :-1] and tensor[:, 1:]
DropLastColumn(tensor) ==
    [i \in 1..Len(tensor) |-> SubSeq(tensor[i], 1, Len(tensor[i]) - 1)]

DropFirstColumn(tensor) ==
    [i \in 1..Len(tensor) |-> SubSeq(tensor[i], 2, Len(tensor[i]))]

\* mask.data.sum().item(): the number of true entries.
CountTrue(mask) ==
    Cardinality({<<i, j>> \in (1..Len(mask)) \X (1..Len(mask[1])) :
                    mask[i][j]})

\* The whole constructor.
BatchConstruct ==
    /\ b_pc = "init"
    /\ LET pad_index == b_args.pad_index
           src == b_args.src[1]
           withDiffs ==
               [batch EXCEPT
                  !.diff_alignment = b_args.diff_alignment[1],
                  !.diff_alignment_lengths = b_args.diff_alignment[2],
                  !.diff_alignment_mask =
                      Unsqueeze2(NotEqual(b_args.diff_alignment[1], pad_index)),
                  !.diff_prev = b_args.diff_prev[1],
                  !.diff_prev_lengths = b_args.diff_prev[2],
                  !.diff_prev_mask =
                      Unsqueeze2(NotEqual(b_args.diff_prev[1], pad_index)),
                  !.diff_updated = b_args.diff_updated[1],
                  !.diff_updated_lengths = b_args.diff_updated[2],
                  !.diff_updated_mask =
                      Unsqueeze2(NotEqual(b_args.diff_updated[1], pad_index))]
           withSrc ==
               [withDiffs EXCEPT
                  !.src = src,
                  !.src_lengths = b_args.src[2],
                  !.src_mask = Unsqueeze2(NotEqual(src, pad_index)),
                  !.nseqs = Len(src)]
           withTrg ==
               IF b_args.trg # None
               THEN LET trg == b_args.trg[1]
                        trg_y == DropFirstColumn(trg)
                    IN  [withSrc EXCEPT
                           !.trg = DropLastColumn(trg),
                           !.trg_lengths = b_args.trg[2],
                           !.trg_y = trg_y,
                           !.trg_mask = NotEqual(trg_y, pad_index),
                           !.ntokens = CountTrue(NotEqual(trg_y, pad_index))]
               ELSE withSrc
           moved ==
               IF ~use_cuda THEN {}
               ELSE {"src", "src_mask"} \cup
                    (IF b_args.trg # None
                     THEN {"trg", "trg_y", "trg_mask"} ELSE {})
       IN  batch' = [withTrg EXCEPT !.cuda = moved]
    /\ b_pc' = "constructed"
    /\ UNCHANGED <<b_args, use_cuda>>
    /\ BatchOnly

BatchNext == BatchConstruct

\* The tensor and the mask a Batch holds for one of its four fields.
HeldTensor(f) ==
    CASE f = "src" -> batch.src
      [] f = "diff_alignment" -> batch.diff_alignment
      [] f = "diff_prev" -> batch.diff_prev
      [] f = "diff_updated" -> batch.diff_updated

HeldMask(f) ==
    CASE f = "src" -> batch.src_mask
      [] f = "diff_alignment" -> batch.diff_alignment_mask
      [] f = "diff_prev" -> batch.diff_prev_mask
      [] f = "diff_updated" -> batch.diff_updated_mask

\* C5: a Batch holds its data with masks: for src, diff_alignment,
\* diff_prev and diff_updated the held tensor is the input tensor and the
\* mask is true at row i, position j exactly when the token there differs
\* from pad_index; nseqs is the number of rows of src.
C5_MasksMarkNonPadTokens ==
    b_pc = "constructed" =>
        /\ \A f \in BatchFields :
             /\ HeldTensor(f) = b_args[f][1]
             /\ Len(HeldMask(f)) = Len(HeldTensor(f))
             /\ \A i \in 1..Len(HeldTensor(f)) :
                  /\ Len(HeldMask(f)[i]) = 1
                  /\ Len(HeldMask(f)[i][1]) = Len(HeldTensor(f)[i])
                  /\ \A j \in 1..Len(HeldTensor(f)[i]) :
                       HeldMask(f)[i][1][j]
                           <=> (HeldTensor(f)[i][j] # b_args.pad_index)
        /\ batch.nseqs = Len(b_args.src[1])

\* A batch was built with a pad index other than 0 whose src holds a pad
\* token and a token that is not one.
C5_Witness ==
    /\ b_pc = "constructed"
    /\ b_args.pad_index = 1
    /\ batch.src = << <<1, 0>> >>
    /\ batch.src_mask = << << <<FALSE, TRUE>> >> >>
    /\ batch.nseqs = 1

----------------------------------------------------------------------------
\* ClassifierLossCompute.__call__: the loss of one batch and, with an
\* optimizer, one update of the parameters. The parameters and their
\* gradient are integers; x is the model's output for the batch, which the
\* caller computes from the current parameters before the call.

\* Largest number of calls of one ClassifierLossCompute.
MaxCalls == 3

BatchInputs == {0, 1}
Labels == {0, 1}

\* The forward pass of the caller: the output for an input.
ModelOutput(p, inp) == p + inp

\* self.criterion(x, y.float())
Criterion(x, y) == (x - y) * (x - y)

\* The gradient of the criterion that backward() adds to the parameters'
\* gradient.
CriterionGradient(x, y) == 2 * (x - y) + 1

LossIdle ==
    /\ l_pc = "idle" /\ has_optimizer = FALSE /\ params = 0 /\ grad = 0
    /\ l_x = None /\ l_y = None /\ loss = None /\ l_ops = <<>>
    /\ l_ret = None /\ l_calls = 0 /\ l_entry = None

\* After construction: fresh parameters, no gradient, no call yet.
LossInit ==
    /\ l_pc = "ready"
    /\ has_optimizer \in BOOLEAN
    /\ params = 0 /\ grad = 0
    /\ l_x = None /\ l_y = None /\ loss = None /\ l_ops = <<>>
    /\ l_ret = None /\ l_calls = 0 /\ l_entry = None

\* __call__(x, y) is entered.
LossCall ==
    /\ l_pc \in {"ready", "returned"}
    /\ l_calls < MaxCalls
    /\ \E inp \in BatchInputs, y \in Labels :
         /\ l_x' = ModelOutput(params, inp)
         /\ l_y' = y
         /\ l_entry' = [params |-> params, grad |-> grad, inp |-> inp]
    /\ l_calls' = l_calls + 1
    /\ l_ops' = <<>>
    /\ loss' = None /\ l_ret' = None
    /\ l_pc' = "get_loss"
    /\ UNCHANGED <<has_optimizer, params, grad>>
    /\ LossOnly

\* loss = self.get_loss(x, y); if self.optimizer is not None
LossGetLoss ==
    /\ l_pc = "get_loss"
    /\ loss' = Criterion(l_x, l_y)
    /\ l_ops' = Append(l_ops, "get_loss")
    /\ l_pc' = IF has_optimizer THEN "backward" ELSE "return"
    /\ UNCHANGED <<has_optimizer, params, grad, l_x, l_y, l_ret, l_calls,
                   l_entry>>
    /\ LossOnly

\* loss.backward(): the gradient of the loss is added to the gradient.
LossBackward ==
    /\ l_pc = "backward"
    /\ grad' = grad + CriterionGradient(l_x, l_y)
    /\ l_ops' = Append(l_ops, "backward")
    /\ l_pc' = "step"
    /\ UNCHANGED <<has_optimizer, params, l_x, l_y, loss, l_ret, l_calls,
                   l_entry>>
    /\ LossOnly

\* self.optimizer.step(): the parameters move against the gradient.
LossStep ==
    /\ l_pc = "step"
    /\ params' = params - grad
    /\ l_ops' = Append(l_ops, "step")
    /\ l_pc' = "zero_grad"
    /\ UNCHANGED <<has_optimizer, grad, l_x, l_y, loss, l_ret, l_calls,
                   l_entry>>
    /\ LossOnly

\* self.optimizer.zero_grad()
LossSkipZeroGrad ==
    /\ l_pc = "zero_grad"
    /\ l_ops' = Append(l_ops, "zero_grad")
    /\ l_pc' = "return"
    /\ UNCHANGED <<has_optimizer, params, grad, l_x, l_y, loss, l_ret,
                   l_calls, l_entry>>
    /\ LossOnly

LossZeroGrad ==
    /\ l_pc = "zero_grad"
    /\ grad' = 0
    /\ l_ops' = Append(l_ops, "zero_grad")
    /\ l_pc' = "return"
    /\ UNCHANGED <<has_optimizer, params, l_x, l_y, loss, l_ret, l_calls,
                   l_entry>>
    /\ LossOnly

\* return loss.data.item()
LossReturn ==
    /\ l_pc = "return"
    /\ l_ret' = loss
    /\ l_pc' = "returned"
    /\ UNCHANGED <<has_optimizer, params, grad, l_x, l_y, loss, l_ops,
                   l_calls, l_entry>>
    /\ LossOnly

LossNext ==
    \/ LossCall \/ LossGetLoss \/ LossBackward \/ LossStep \/ LossZeroGrad
    \/ LossReturn

\* C6: with an optimizer a call performs get_loss, backward, step,
\* zero_grad in this order, the gradient is zero after it and holds only
\* the gradient of the call's own loss when step runs; without an optimizer
\* none of backward, step, zero_grad runs; in both cases the value returned
\* is the loss of the output computed from the parameters the call was
\* entered with.
C6_BackwardStepZeroGrad ==
    /\ l_pc = "returned" =>
         /\ l_ret = Criterion(ModelOutput(l_entry.params, l_entry.inp), l_y)
         /\ has_optimizer =>
              /\ l_ops = <<"get_loss", "backward", "step", "zero_grad">>
              /\ grad = 0
              /\ params = l_entry.params - CriterionGradient(l_x, l_y)
         /\ ~has_optimizer =>
              /\ l_ops = <<"get_loss">>
              /\ grad = l_entry.grad
              /\ params = l_entry.params
    /\ l_pc \in {"ready", "get_loss"} => grad = 0
    /\ l_pc = "step" => grad = CriterionGradient(l_x, l_y)

\* A second call with an optimizer has returned after the first one moved
\* the parameters.
C6_Witness ==
    /\ l_pc = "returned" /\ has_optimizer /\ l_calls = 2
    /\ l_entry.params # 0
    /\ params # l_entry.params
    /\ l_ret # 0

----------------------------------------------------------------------------
\* PatchNetDataset.extract_data_samples: the labeled samples of a
\* description file. A line is a sequence of words; the word ": " is the
\* separator of str.split(': ').

\* Largest number of lines of the description file.
MaxLines == 4
\* if (idx + 1) % 50 == 0: a progress report.
ProgressEvery == 50

Sep == ": "

\* The lines a description file is made of: well-formed hash and label
\* lines, a line without separator, a label strtobool does not know and a
\* line with two separators.
LinePool ==
    { <<"commit_id", Sep, "h1">>, <<"commit_id", Sep, "h2">>,
      <<"stable", Sep, "true">>, <<"stable", Sep, "false">>,
      <<"junk">>, <<"stable", Sep, "maybe">>,
      <<"commit_id", Sep, "h1", Sep, "h2">> }

DescriptionFiles == UNION {[1..n -> LinePool] : n \in 0..MaxLines}

ExtractIdle ==
    /\ x_pc = "idle" /\ description_lines = <<>>
    /\ examples_text_data = <<>> /\ x_idx = 0 /\ x_data_samples = <<>>
    /\ x_counter = EmptyBag /\ x_progress = 0

ExtractInit ==
    /\ x_pc = "read"
    /\ description_lines \in DescriptionFiles
    /\ examples_text_data = <<>> /\ x_idx = 0 /\ x_data_samples = <<>>
    /\ x_counter = EmptyBag /\ x_progress = 0

\* str.split(sep): the pieces of a line between its separators.
RECURSIVE Split(_, _)
Split(line, sep) ==
    IF \E k \in 1..Len(line) : line[k] = sep
    THEN LET k == CHOOSE q \in 1..Len(line) :
                     line[q] = sep /\ \A r \in 1..(q - 1) : line[r] # sep
         IN  <<SubSeq(line, 1, k - 1)>>
               \o Split(SubSeq(line, k + 1, Len(line)), sep)
    ELSE <<line>>

\* zip(a, b): pairs up to the shorter of the two.
Zip(a, b) ==
    LET n == IF Len(a) < Len(b) THEN Len(a) ELSE Len(b)
    IN  [i \in 1..n |-> <<a[i], b[i]>>]

\* Python's index 0 is the first element of a sequence.
PyItem(s, i) == s[i + 1]

\* get_examples_text_data:
\* list(zip(description_lines[::2], description_lines[1::2]))
GetExamplesTextDataFromOne(lines) ==
    Zip(PySlice(lines, 1, Len(lines), 2), PySlice(lines, 2, Len(lines), 2))

GetExamplesTextData(lines) ==
    Zip(PySlice(lines, 0, Len(lines), 2), PySlice(lines, 1, Len(lines), 2))

\* distutils.util.strtobool: <<1>> and <<0>> for the words it knows; None
\* stands for its ValueError.
TrueWords == {"y", "yes", "t", "true", "on", "1"}
FalseWords == {"n", "no", "f", "false", "off", "0"}

StrToBool(text) ==
    IF Len(text) = 1 /\ text[1] \in TrueWords THEN <<1>>
    ELSE IF Len(text) = 1 /\ text[1] \in FalseWords THEN <<0>>
    ELSE None

\* extract_commit_hash_field: example_text_data[0].split(': ')[1], as a
\* one-element sequence (None stands for the IndexError of a line without
\* separator).
ExtractCommitHashField(example_text_data) ==
    LET pieces == Split(PyItem(example_text_data, 0), Sep)
    IN  IF Len(pieces) > 1 THEN <<PyItem(pieces, 1)>> ELSE None

\* extract_stable_field: bool(strtobool(example_text_data[1].split(': ')[1])),
\* as a one-element sequence (None stands for the IndexError or the
\* ValueError).
ExtractStableField(example_text_data) ==
    LET pieces == Split(PyItem(example_text_data, 1), Sep)
    IN  IF Len(pieces) > 1 /\ StrToBool(PyItem(pieces, 1)) # None
        THEN <<StrToBool(PyItem(pieces, 1))[1] # 0>>
        ELSE None

\* The path of the repository the commits are mined from.
RepositoryPath == "linux"

\* Commit(repository, commit_hash): the commit and the code mined for it,
\* a pair of the prev and updated tokens and the counter of its tokens.
NewCommit(repository, commit_hash) ==
    [repository |-> repository,
     commit_hash |-> commit_hash,
     code |-> << [prev |-> << <<"prev", commit_hash>> >>,
                  updated |-> << <<"updated", commit_hash>> >>],
                 SetToBag({commit_hash}) >>]

\* Commit.get_counter
GetCounter(commit) == commit.code[2]

\* DataSample(commit, stable, idx)
NewDataSample(commit, stable, idx) ==
    [commit |-> commit, stable |-> stable, idx |-> idx]

\* examples_text_data = get_examples_text_data(description_filepath)
ExtractRead ==
    /\ x_pc = "read"
    /\ examples_text_data' = GetExamplesTextData(description_lines)
    /\ x_pc' = "loop"
    /\ UNCHANGED <<description_lines, x_idx, x_data_samples, x_counter,
                   x_progress>>
    /\ ExtractOnly

\* One pass of the loop over enumerate(examples_text_data); a field that
\* cannot be extracted raises.
ExtractExample ==
    /\ x_pc = "loop"
    /\ x_idx < Len(examples_text_data)
    /\ LET example_text_data == PyItem(examples_text_data, x_idx)
           commit_hash == ExtractCommitHashField(example_text_data)
           stable == ExtractStableField(example_text_data)
       IN  IF commit_hash = None \/ stable = None
           THEN /\ x_pc' = "raised"
                /\ UNCHANGED <<x_idx, x_data_samples, x_counter, x_progress>>
           ELSE LET commit == NewCommit(RepositoryPath, commit_hash[1])
                IN  /\ x_data_samples' =
                         Append(x_data_samples,
                                NewDataSample(commit, stable[1], x_idx))
                    /\ x_counter' = x_counter (+) GetCounter(commit)
                    /\ x_progress' = IF (x_idx + 1) % ProgressEvery = 0
                                     THEN x_progress + 1 ELSE x_progress
                    /\ x_idx' = x_idx + 1
                    /\ UNCHANGED x_pc
    /\ UNCHANGED <<description_lines, examples_text_data>>
    /\ ExtractOnly

\* return data_samples, counter
ExtractReturn ==
    /\ x_pc = "loop"
    /\ x_idx = Len(examples_text_data)
    /\ x_pc' = "returned"
    /\ UNCHANGED <<description_lines, examples_text_data, x_idx,
                   x_data_samples, x_counter, x_progress>>
    /\ ExtractOnly

ExtractNext == ExtractRead \/ ExtractExample \/ ExtractReturn

\* A line "<key>: <text>": exactly one separator.
OneSeparator(line) == Cardinality({k \in 1..Len(line) : line[k] = Sep}) = 1

\* The text after ': ' of a line with one separator.
TextAfterSep(line) ==
    LET k == CHOOSE q \in 1..Len(line) : line[q] = Sep
    IN  SubSeq(line, k + 1, Len(line))

\* The lines 0 .. 2 * floor(n / 2) - 1 are hash and label lines.
PairedLinesWellFormed ==
    LET n == Len(description_lines)
    IN  \A i \in 0..((n \div 2) - 1) :
          /\ OneSeparator(PyItem(description_lines, 2 * i))
          /\ OneSeparator(PyItem(description_lines, 2 * i + 1))
          /\ Len(TextAfterSep(PyItem(description_lines, 2 * i + 1))) = 1
          /\ TextAfterSep(PyItem(description_lines, 2 * i + 1))[1]
                \in TrueWords \cup FalseWords

\* C7: for a description file of n lines whose paired lines have the form
\* "<key>: <text>", extract_data_samples returns exactly floor(n / 2)
\* samples in file order: sample i has the text after ': ' of line 2i as
\* its commit hash, the truth value of the text after ': ' of line 2i+1 as
\* its stable label and idx = i; a trailing unpaired line is ignored,
\* whatever it holds.
C7_SamplesPairLines ==
    PairedLinesWellFormed =>
        /\ x_pc # "raised"
        /\ x_pc = "returned" =>
             LET n == Len(description_lines)
             IN  /\ Len(x_data_samples) = n \div 2
                 /\ \A i \in 0..((n \div 2) - 1) :
                      LET sample == PyItem(x_data_samples, i)
                      IN  /\ sample.commit.commit_hash =
                                TextAfterSep(PyItem(description_lines, 2 * i))
                          /\ sample.stable <=>
                                (TextAfterSep(
                                    PyItem(description_lines, 2 * i + 1))[1]
                                   \in TrueWords)
                          /\ sample.idx = i

\* A file of three lines, the last of them without separator, gave one
\* sample.
C7_Witness ==
    /\ x_pc = "returned"
    /\ description_lines =
         << <<"commit_id", Sep, "h2">>, <<"stable", Sep, "true">>, <<"junk">> >>
    /\ Len(x_data_samples) = 1
    /\ x_data_samples[1].stable

----------------------------------------------------------------------------
\* PatchNetDataset.write_data and load: the dataset written under its root
\* and its pickled state read back. A file is None while it does not exist.

\* Largest number of data samples of the dataset.
MaxSamples == 2

\* The samples a dataset is made of, without their idx.
SamplePool ==
    { [commit_hash |-> "h1", stable |-> TRUE],
      [commit_hash |-> "h2", stable |-> FALSE],
      [commit_hash |-> "h1", stable |-> FALSE] }

\* The lists of data samples: sample i has idx = i, as the extraction
\* numbers them.
DataSampleLists ==
    UNION { { [i \in 1..n |->
                 NewDataSample(NewCommit(RepositoryPath,
                                         pick[i].commit_hash),
                               pick[i].stable, i - 1)] :
              pick \in [1..n -> SamplePool] } : n \in 0..MaxSamples }

\* The token counters of a dataset.
CounterPool == { EmptyBag, SetToBag({"h1"}) (+) SetToBag({"h1", "h2"}) }

NoFiles ==
    [prev |-> None, updated |-> None, trg |-> None, ids |-> None,
     commit_hashes |-> None, tokens_counter |-> None, data_samples |-> None]

StoreIdle ==
    /\ data_samples = <<>> /\ tokens_counter = EmptyBag /\ files = NoFiles
    /\ s_ops = <<"idle", "idle">> /\ s_written = None
    /\ s_replaced = FALSE

\* A dataset has been constructed and nothing is written under its root.
StoreInit ==
    /\ data_samples \in DataSampleLists
    /\ tokens_counter \in CounterPool
    /\ files = NoFiles
    /\ s_ops = <<"none", "init">> /\ s_written = None
    /\ s_replaced = FALSE

\* Commit.get_code_field: the code is mined again when it is missing.
GetCodeField(commit, field) ==
    LET code == IF commit.code = None
                THEN NewCommit(commit.repository, commit.commit_hash).code
                ELSE commit.code
    IN  IF field = "prev" THEN code[1].prev ELSE code[1].updated

\* sep.join(parts): the parts with the separator between them.
RECURSIVE Join(_, _)
Join(sep, parts) ==
    IF Len(parts) = 0 THEN <<>>
    ELSE IF Len(parts) = 1 THEN <<parts[1]>>
    ELSE <<parts[1], sep>> \o Join(sep, Tail(parts))

\* The keys of a counter in some order.
RECURSIVE SetToSeq(_)
SetToSeq(S) ==
    IF S = {} THEN <<>>
    ELSE LET x == CHOOSE y \in S : TRUE
         IN  <<x>> \o SetToSeq(S \ {x})

\* pickle.dump of the list of data samples: a header with the length of
\* the list, then the attributes of every sample and of its commit.
PickleDataSamples(samples) ==
    LET item(s) == <<"DataSample", s.commit.repository,
                     s.commit.commit_hash, s.commit.code, s.stable, s.idx>>
        RECURSIVE items(_)
        items(rest) == IF rest = <<>> THEN <<>>
                       ELSE item(Head(rest)) \o items(Tail(rest))
    IN  <<"list", Len(samples)>> \o items(samples)

\* pickle.load of a pickled list of data samples.
UnpickleDataSamples(stream) ==
    [i \in 1..stream[2] |->
        LET at == 2 + 6 * (i - 1)
        IN  [commit |-> [repository |-> stream[at + 2],
                         commit_hash |-> stream[at + 3],
                         code |-> stream[at + 4]],
             stable |-> stream[at + 5],
             idx |-> stream[at + 6]]]

\* pickle.dump of a Counter: its keys with their counts.
PickleCounter(counter) ==
    LET keys == SetToSeq(DOMAIN counter)
    IN  <<"Counter", Len(keys)>>
          \o [i \in 1..Len(keys) |-> <<keys[i], counter[keys[i]]>>]

\* pickle.load of a pickled Counter.
UnpickleCounter(stream) ==
    LET keys == {stream[2 + i][1] : i \in 1..stream[2]}
    IN  [k \in keys |->
            LET i == CHOOSE q \in 1..stream[2] : stream[2 + q][1] = k
            IN  stream[2 + i][2]]

\* An assignment to self.data_samples and self.tokens_counter.
StoreAssign ==
    /\ s_ops[2] # "idle"
    /\ data_samples' \in DataSampleLists
    /\ tokens_counter' \in CounterPool
    /\ s_ops' = <<s_ops[2], "assign">>
    /\ UNCHANGED <<files, s_written, s_replaced>>
    /\ StoreOnly

\* write_data: the five text files and the two pickles.
StoreWriteData ==
    /\ s_ops[2] # "idle"
    /\ LET n == Len(data_samples)
           prev_file_lines ==
               [i \in 1..n |->
                  Join(" ", [k \in 1..Len(GetCodeField(data_samples[i].commit,
                                                       "prev")) |->
                     GetCodeField(data_samples[i].commit, "prev")[k][2]])]
           updated_file_lines ==
               [i \in 1..n |->
                  Join(" ", [k \in 1..Len(GetCodeField(data_samples[i].commit,
                                                       "updated")) |->
                     GetCodeField(data_samples[i].commit, "updated")[k][2]])]
           trg_file_lines ==
               [i \in 1..n |-> IF data_samples[i].stable THEN "1" ELSE "0"]
           ids_file_lines == [i \in 1..n |-> ToString(data_samples[i].idx)]
           commit_hashes_file_lines ==
               [i \in 1..n |-> data_samples[i].commit.commit_hash]
       IN  files' =
             [prev |-> Join("\n", prev_file_lines),
              updated |-> Join("\n", updated_file_lines),
              trg |-> Join("\n", trg_file_lines),
              ids |-> Join("\n", ids_file_lines),
              commit_hashes |-> Join("\n", commit_hashes_file_lines),
              tokens_counter |-> PickleCounter(tokens_counter),
              data_samples |-> PickleDataSamples(data_samples)]
    /\ s_written' = [data_samples |-> data_samples,
                     tokens_counter |-> tokens_counter]
    /\ s_ops' = <<s_ops[2], "write_data">>
    /\ UNCHANGED <<data_samples, tokens_counter, s_replaced>>
    /\ StoreOnly

\* load: both pickles are read back; a missing file raises.
StoreLoadCounterOnly ==
    /\ s_ops[2] # "idle"
    /\ IF files.tokens_counter = None \/ files.data_samples = None
       THEN /\ s_ops' = <<s_ops[2], "load_raised">>
            /\ UNCHANGED <<data_samples, tokens_counter, s_replaced>>
       ELSE /\ tokens_counter' = UnpickleCounter(files.tokens_counter)
            /\ UNCHANGED data_samples
            /\ s_replaced' = FALSE
            /\ s_ops' = <<s_ops[2], "load">>
    /\ UNCHANGED <<files, s_written>>
    /\ StoreOnly

StoreLoad ==
    /\ s_ops[2] # "idle"
    /\ IF files.tokens_counter = None \/ files.data_samples = None
       THEN /\ s_ops' = <<s_ops[2], "load_raised">>
            /\ UNCHANGED <<data_samples, tokens_counter, s_replaced>>
       ELSE /\ tokens_counter' = UnpickleCounter(files.tokens_counter)
            /\ data_samples' = UnpickleDataSamples(files.data_samples)
            /\ s_replaced' =
                 (data_samples # UnpickleDataSamples(files.data_samples)
                  /\ tokens_counter # UnpickleCounter(files.tokens_counter))
            /\ s_ops' = <<s_ops[2], "load">>
    /\ UNCHANGED <<files, s_written>>
    /\ StoreOnly

StoreNext == StoreAssign \/ StoreWriteData \/ StoreLoad

\* C8: write_data followed by load is a round trip for the pickled state:
\* after load, data_samples and tokens_counter are the values they had when
\* write_data was called, whatever was assigned to them in between.
C8_WriteLoadRoundTrip ==
    s_ops[2] = "load" =>
        /\ s_written # None
        /\ data_samples = s_written.data_samples
        /\ tokens_counter = s_written.tokens_counter

\* A load has brought back a written dataset of two samples over other
\* values assigned after the write.
C8_Witness ==
    /\ s_ops = <<"assign", "load">>
    /\ s_replaced
    /\ Len(data_samples) = 2
    /\ tokens_counter # EmptyBag

----------------------------------------------------------------------------
\* AccuracyCalculation.conduct: accuracy@k of beam search on a dataset.

\* Largest number of examples of the dataset.
MaxExamples == 3

\* The values config['TOP_K'] may have.
TopKLists == { <<1>>, <<1, 3>>, <<1, 3, 5>> }

AccIdle ==
    /\ a_pc = "idle" /\ topk_values = <<>> /\ a_dataset = 0
    /\ a_calculated = None /\ a_i = 0 /\ a_printed = <<>> /\ a_ret = None

\* An experiment has been constructed and conduct is entered on a dataset.
AccInit ==
    /\ a_pc = "conduct"
    /\ topk_values \in TopKLists
    /\ a_dataset \in 0..MaxExamples
    /\ a_calculated = None /\ a_i = 0 /\ a_printed = <<>> /\ a_ret = None

\* calculate_top_k_accuracy(topk_values, batches, beam_search, ...): the
\* results it may return on a dataset of the given size: one count of
\* correct examples per k, growing with k, the number of examples, and the
\* predictions of every example.
CalculateTopKAccuracy(topk, examples) ==
    { [correct_all_k |-> correct,
       total |-> examples,
       max_top_k_predicted |-> [e \in 1..examples |-> <<"prediction", e>>]] :
      correct \in { c \in [1..Len(topk) -> 0..examples] :
                      \A i \in 1..(Len(topk) - 1) : c[i] <= c[i + 1] } }

RECURSIVE Gcd(_, _)
Gcd(a, b) == IF b = 0 THEN a ELSE Gcd(b, a % b)

\* correct_top_k / total: the quotient as a fraction in lowest terms; None
\* stands for the ZeroDivisionError.
TrueDivide(a, b) ==
    IF b = 0 THEN None
    ELSE IF a = 0 THEN <<0, 1>>
    ELSE <<a \div Gcd(a, b), b \div Gcd(a, b)>>

\* f'Top-{k} accuracy: {correct_top_k} / {total} = {correct_top_k / total}'
AccuracyLineSwapped(correct_top_k, k, total) ==
    [k |-> correct_top_k, correct |-> k, total |-> total,
     accuracy |-> TrueDivide(k, total)]

AccuracyLine(correct_top_k, k, total) ==
    [k |-> k, correct |-> correct_top_k, total |-> total,
     accuracy |-> TrueDivide(correct_top_k, total)]

\* print(f'Start conducting ...'); data_iterator = data.Iterator(...)
AccStart ==
    /\ a_pc = "conduct"
    /\ a_printed' = Append(a_printed, [start |-> a_dataset])
    /\ a_pc' = "calculate"
    /\ UNCHANGED <<topk_values, a_dataset, a_calculated, a_i, a_ret>>
    /\ AccOnly

\* correct_all_k, total, max_top_k_predicted = calculate_top_k_accuracy(...)
AccCalculate ==
    /\ a_pc = "calculate"
    /\ a_calculated' \in CalculateTopKAccuracy(topk_values, a_dataset)
    /\ a_i' = 0
    /\ a_pc' = "print"
    /\ UNCHANGED <<topk_values, a_dataset, a_printed, a_ret>>
    /\ AccOnly

\* One pass of: for correct_top_k, k in zip(correct_all_k, topk_values)
AccPrintLine ==
    /\ a_pc = "print"
    /\ a_i < Len(Zip(a_calculated.correct_all_k, topk_values))
    /\ LET pair == PyItem(Zip(a_calculated.correct_all_k, topk_values), a_i)
       IN  IF TrueDivide(pair[1], a_calculated.total) = None
           THEN /\ a_pc' = "raised"
                /\ UNCHANGED <<a_printed, a_i>>
           ELSE /\ a_printed' =
                     Append(a_printed,
                            AccuracyLine(pair[1], pair[2],
                                         a_calculated.total))
                /\ a_i' = a_i + 1
                /\ UNCHANGED a_pc
    /\ UNCHANGED <<topk_values, a_dataset, a_calculated, a_ret>>
    /\ AccOnly

\* return max_top_k_predicted
AccReturn ==
    /\ a_pc = "print"
    /\ a_i = Len(Zip(a_calculated.correct_all_k, topk_values))
    /\ a_ret' = a_calculated.max_top_k_predicted
    /\ a_pc' = "returned"
    /\ UNCHANGED <<topk_values, a_dataset, a_calculated, a_i, a_printed>>
    /\ AccOnly

AccNext == AccStart \/ AccCalculate \/ AccPrintLine \/ AccReturn

\* The accuracy lines printed so far: everything after the start line.
AccuracyLines == Tail(a_printed)

----------------------------------------------------------------------------
\* analyze.main: the entry point of the offline analysis. argv is sys.argv,
\* whose first element is the name of the script.

\* Largest number of command-line arguments after the script name.
MaxArgs == 3

ArgumentPool == {"results", "test", "other"}

Usage == "arguments: <results_root_dir> <is_test (optional, default false)>."

MainIdle ==
    /\ m_pc = "idle" /\ argv = <<>> /\ m_printed = <<>>
    /\ results_root_dir = None /\ is_test = FALSE /\ config = None
    /\ m_evaluation = <<>>

MainInit ==
    /\ m_pc = "main"
    /\ \E n \in 0..MaxArgs :
         \E arguments \in [1..n -> ArgumentPool] :
             argv = <<"analyze.py">> \o arguments
    /\ m_printed = <<>>
    /\ results_root_dir = None /\ is_test = FALSE /\ config = None
    /\ m_evaluation = <<>>

\* load_config(is_test, config_path)
LoadConfig(test, config_path) == [is_test |-> test, path |-> config_path]

\* if len(sys.argv) != 3 and len(sys.argv) != 2: print(usage)
MainCheckArguments ==
    /\ m_pc = "main"
    /\ m_printed' = IF Len(argv) # 3 /\ Len(argv) # 2
                    THEN Append(m_printed, Usage)
                    ELSE m_printed
    /\ m_pc' = "arguments"
    /\ UNCHANGED <<argv, results_root_dir, is_test, config, m_evaluation>>
    /\ MainOnly

\* results_root_dir = sys.argv[1] (an IndexError without arguments);
\* is_test = len(sys.argv) > 2 and sys.argv[2] == 'test'
MainReadArguments ==
    /\ m_pc = "arguments"
    /\ IF Len(argv) < 2
       THEN /\ m_pc' = "raised"
            /\ UNCHANGED <<results_root_dir, is_test>>
       ELSE /\ results_root_dir' = <<PyItem(argv, 1)>>
            /\ is_test' = (Len(argv) > 2 /\ PyItem(argv, 2) = "test")
            /\ m_pc' = "load_config"
    /\ UNCHANGED <<argv, m_printed, config, m_evaluation>>
    /\ MainOnly

\* config_path = Path(results_root_dir).joinpath('config.pkl');
\* config = load_config(is_test, config_path)
MainLoadConfig ==
    /\ m_pc = "load_config"
    /\ config' = LoadConfig(is_test, results_root_dir \o <<"config.pkl">>)
    /\ m_pc' = "print_results"
    /\ UNCHANGED <<argv, m_printed, results_root_dir, is_test, m_evaluation>>
    /\ MainOnly

\* print_results: the configuration is printed and the neural editor is
\* loaded and evaluated.
MainEvaluateNeuralEditor ==
    /\ m_pc = "print_results"
    /\ m_printed' = m_printed \o <<"config", "STARTING NEURAL EDITOR EVALUATION">>
    /\ m_evaluation' =
         Append(m_evaluation,
                results_root_dir
                  \o <<"model_best_on_validation_neural_editor.pt">>)
    /\ m_pc' = "commit_msg_generator"
    /\ UNCHANGED <<argv, results_root_dir, is_test, config>>
    /\ MainOnly

\* print_results: the commit message generator is loaded and evaluated.
MainEvaluateCommitMsgGenerator ==
    /\ m_pc = "commit_msg_generator"
    /\ m_printed' =
         Append(m_printed, "STARTING COMMIT MSG GENERATOR EVALUATIONN")
    /\ m_evaluation' =
         Append(m_evaluation,
                results_root_dir
                  \o <<"model_best_on_validation_commit_msg_generator.pt">>)
    /\ m_pc' = "returned"
    /\ UNCHANGED <<argv, results_root_dir, is_test, config>>
    /\ MainOnly

MainNext ==
    \/ MainCheckArguments \/ MainReadArguments \/ MainLoadConfig
    \/ MainEvaluateNeuralEditor \/ MainEvaluateCommitMsgGenerator

\* The number of command-line arguments.
NumArguments == Len(argv) - 1

\* C10: when the number of command-line arguments is neither 1 nor 2, main
\* prints the usage message, loads no configuration and starts no
\* evaluation.
C10_UsageStopsMain ==
    (NumArguments \notin {1, 2} /\ m_pc # "main") =>
        /\ m_printed # <<>> /\ m_printed[1] = Usage
        /\ config = None
        /\ m_evaluation = <<>>

----------------------------------------------------------------------------
\* The specifications, one per component, and the specification of the
\* whole: one component runs, any of them.

TrainSpecInit ==
    /\ TrainInit
    /\ TestIdle
    /\ EncIdle
    /\ BatchIdle
    /\ LossIdle
    /\ ExtractIdle
    /\ StoreIdle
    /\ AccIdle
    /\ MainIdle

SpecTrain == TrainSpecInit /\ [][TrainNext]_vars

TestSpecInit ==
    /\ TestInit
    /\ TrainIdle
    /\ EncIdle
    /\ BatchIdle
    /\ LossIdle
    /\ ExtractIdle
    /\ StoreIdle
    /\ AccIdle
    /\ MainIdle

SpecTest == TestSpecInit /\ [][TestNext]_vars

EncSpecInit ==
    /\ EncInit
    /\ TrainIdle
    /\ TestIdle
    /\ BatchIdle
    /\ LossIdle
    /\ ExtractIdle
    /\ StoreIdle
    /\ AccIdle
    /\ MainIdle

SpecEncoder == EncSpecInit /\ [][EncNext]_vars

BatchSpecInit ==
    /\ BatchInit
    /\ TrainIdle
    /\ TestIdle
    /\ EncIdle
    /\ LossIdle
    /\ ExtractIdle
    /\ StoreIdle
    /\ AccIdle
    /\ MainIdle

SpecBatch == BatchSpecInit /\ [][BatchNext]_vars

LossSpecInit ==
    /\ LossInit
    /\ TrainIdle
    /\ TestIdle
    /\ EncIdle
    /\ BatchIdle
    /\ ExtractIdle
    /\ StoreIdle
    /\ AccIdle
    /\ MainIdle

SpecLoss == LossSpecInit /\ [][LossNext]_vars

ExtractSpecInit ==
    /\ ExtractInit
    /\ TrainIdle
    /\ TestIdle
    /\ EncIdle
    /\ BatchIdle
    /\ LossIdle
    /\ StoreIdle
    /\ AccIdle
    /\ MainIdle

SpecExtract == ExtractSpecInit /\ [][ExtractNext]_vars

StoreSpecInit ==
    /\ StoreInit
    /\ TrainIdle
    /\ TestIdle
    /\ EncIdle
    /\ BatchIdle
    /\ LossIdle
    /\ ExtractIdle
    /\ AccIdle
    /\ MainIdle

SpecStore == StoreSpecInit /\ [][StoreNext]_vars

AccSpecInit ==
    /\ AccInit
    /\ TrainIdle
    /\ TestIdle
    /\ EncIdle
    /\ BatchIdle
    /\ LossIdle
    /\ ExtractIdle
    /\ StoreIdle
    /\ MainIdle

SpecAccuracy == AccSpecInit /\ [][AccNext]_vars

MainSpecInit ==
    /\ MainInit
    /\ TrainIdle
    /\ TestIdle
    /\ EncIdle
    /\ BatchIdle
    /\ LossIdle
    /\ ExtractIdle
    /\ StoreIdle
    /\ AccIdle

SpecMain == MainSpecInit /\ [][MainNext]_vars

Init ==
    \/ TrainSpecInit \/ TestSpecInit \/ EncSpecInit \/ BatchSpecInit
    \/ LossSpecInit \/ ExtractSpecInit \/ StoreSpecInit \/ AccSpecInit
    \/ MainSpecInit

Next ==
    \/ TrainNext \/ TestNext \/ EncNext \/ BatchNext \/ LossNext
    \/ ExtractNext \/ StoreNext \/ AccNext \/ MainNext

Spec == Init /\ [][Next]_vars

====
